---- MODULE Spec2Model ----
(***************************************************************************)
(* Model of the financetools dashboards.  The first part models the        *)
(* "Find Nearest HK Bus Stop" page                                         *)
(* (nearest_bus_stop_to_me_streamlit_hardcode_directions_v2.py): one run   *)
(* of the script per user interaction, the parsing of the GPS text, the    *)
(* row-by-row scan of find_nearest_bus_stop and the display of the result. *)
(*                                                                         *)
(* Numbers.  A Python float is modelled by an integer: a coordinate in     *)
(* half degrees (the text "22.5" is 45), a distance in hundredths of a     *)
(* kilometre.  Two reserved integers stand for float('inf') and            *)
(* float('nan'); FLt and FEq compare as IEEE comparison does.  None is the *)
(* empty sequence and a present value v is <<v>>.                          *)
(***************************************************************************)
EXTENDS Integers, Sequences, FiniteSets, TLC

(***************************************************************************)
(* Bounds of the model.                                                    *)
(***************************************************************************)
MaxRows == 3
MaxStops == 2
MaxCallRows == 2
MaxRetryRows == 2
MaxRejected == 2
MaxPeriods == 2
MaxStocks == 3

(***************************************************************************)
(* Floats.                                                                 *)
(***************************************************************************)
Inf == 999999999
NaN == 0 - 999999999
None == <<>>
Some(v) == <<v>>

IsFinite(x) == x # Inf /\ x # NaN
FLt(x, y) == x # NaN /\ y # NaN /\ x < y
FEq(x, y) == x # NaN /\ y # NaN /\ x = y

(***************************************************************************)
(* float(text): the texts the model uses and the value Python gives each.  *)
(* float() strips surrounding blanks, accepts "nan" and "inf", and raises  *)
(* ValueError on anything else, the empty text included.                   *)
(***************************************************************************)
FloatText ==
  [t \in {"22", " 114", "114", "22.5", "114.5", "23", "95", "nan", "inf"} |->
     CASE t = "22" -> 44
       [] t = " 114" -> 228
       [] t = "114" -> 228
       [] t = "22.5" -> 45
       [] t = "114.5" -> 229
       [] t = "23" -> 46
       [] t = "95" -> 190
       [] t = "nan" -> NaN
       [] t = "inf" -> Inf]

\* The result of a call that may raise: err is "" or the exception's name.
Ok(v) == [err |-> "", val |-> v]
Raise(e) == [err |-> e, val |-> 0]

\* A slip: a text that is no number is read as zero instead of raising.
floatLenient(t) == IF t \in DOMAIN FloatText THEN Ok(FloatText[t]) ELSE Ok(0)

float(t) == IF t \in DOMAIN FloatText THEN Ok(FloatText[t]) ELSE Raise("ValueError")

(***************************************************************************)
(* haversine_distance.  Hav[h] is sin(x/2)^2 in millionths for x = h half  *)
(* degrees, h in 0..360 (index h+1 of the table).                          *)
(***************************************************************************)
HavTable == <<
      0, 19, 76, 171, 305, 476, 685, 933, 1218, 1541,
      1903, 2302, 2739, 3214, 3727, 4278, 4866, 5492, 6156, 6857,
      7596, 8373, 9186, 10038, 10926, 11852, 12815, 13815, 14852, 15926,
      17037, 18185, 19369, 20590, 21848, 23142, 24472, 25838, 27241, 28679,
      30154, 31664, 33210, 34791, 36408, 38060, 39748, 41470, 43227, 45019,
      46846, 48707, 50603, 52533, 54497, 56495, 58526, 60591, 62690, 64822,
      66987, 69185, 71416, 73680, 75976, 78304, 80665, 83057, 85481, 87937,
      90424, 92942, 95492, 98072, 100682, 103323, 105995, 108696, 111427, 114188,
      116978, 119797, 122645, 125522, 128428, 131361, 134323, 137313, 140330, 143375,
      146447, 149545, 152671, 155823, 159001, 162205, 165435, 168690, 171970, 175276,
      178606, 181961, 185340, 188743, 192169, 195619, 199092, 202589, 206107, 209649,
      213212, 216797, 220404, 224032, 227680, 231350, 235040, 238751, 242481, 246231,
      250000, 253788, 257595, 261421, 265264, 269126, 273005, 276901, 280814, 284744,
      288691, 292653, 296632, 300625, 304634, 308658, 312697, 316749, 320816, 324896,
      328990, 333097, 337216, 341348, 345492, 349647, 353814, 357992, 362181, 366381,
      370590, 374810, 379039, 383277, 387524, 391780, 396044, 400316, 404596, 408882,
      413176, 417476, 421783, 426095, 430413, 434737, 439065, 443398, 447736, 452077,
      456422, 460770, 465122, 469476, 473832, 478190, 482550, 486912, 491274, 495637,
      500000, 504363, 508726, 513088, 517450, 521810, 526168, 530524, 534878, 539230,
      543578, 547923, 552264, 556602, 560935, 565263, 569587, 573905, 578217, 582524,
      586824, 591118, 595404, 599684, 603956, 608220, 612476, 616723, 620961, 625190,
      629410, 633619, 637819, 642008, 646186, 650353, 654508, 658652, 662784, 666903,
      671010, 675104, 679184, 683251, 687303, 691342, 695366, 699375, 703368, 707347,
      711309, 715256, 719186, 723099, 726995, 730874, 734736, 738579, 742405, 746212,
      750000, 753769, 757519, 761249, 764960, 768650, 772320, 775968, 779596, 783203,
      786788, 790351, 793893, 797411, 800908, 804381, 807831, 811257, 814660, 818039,
      821394, 824724, 828030, 831310, 834565, 837795, 840999, 844177, 847329, 850455,
      853553, 856625, 859670, 862687, 865677, 868639, 871572, 874478, 877355, 880203,
      883022, 885812, 888573, 891304, 894005, 896677, 899318, 901928, 904508, 907058,
      909576, 912063, 914519, 916943, 919335, 921696, 924024, 926320, 928584, 930815,
      933013, 935178, 937310, 939409, 941474, 943505, 945503, 947467, 949397, 951293,
      953154, 954981, 956773, 958530, 960252, 961940, 963592, 965209, 966790, 968336,
      969846, 971321, 972759, 974162, 975528, 976858, 978152, 979410, 980631, 981815,
      982963, 984074, 985148, 986185, 987185, 988148, 989074, 989962, 990814, 991627,
      992404, 993143, 993844, 994508, 995134, 995722, 996273, 996786, 997261, 997698,
      998097, 998459, 998782, 999067, 999315, 999524, 999695, 999829, 999924, 999981,
      1000000 >>

Abs(x) == IF x < 0 THEN 0 - x ELSE x

\* sin(x/2)^2 in millionths, x in half degrees (even, period 360 degrees).
HavOf(x) ==
  LET m == Abs(x) % 720
      f == IF m > 360 THEN 720 - m ELSE m
  IN HavTable[f + 1]

\* cos(x) in millionths, x in half degrees: cos x = 1 - 2 sin(x/2)^2.
CosOf(x) == 1000000 - 2 * HavOf(x)

\* x * y for x and y in millionths, |x|, |y| <= 10^6, in millionths: the product
\* taken in two halves of three digits so that no step leaves 32 bits.
MulMillionths(x, y) ==
  LET ax == Abs(x)
      ay == Abs(y)
      xh == ax \div 1000
      xl == ax % 1000
      yh == ay \div 1000
      yl == ay % 1000
      p == xh * yh + ((xh * yl + xl * yh) * 1000 + xl * yl) \div 1000000
  IN IF (x < 0) = (y < 0) THEN p ELSE 0 - p

RECURSIVE HavIndex(_, _, _)
\* The largest h in lo..hi with Hav[h] <= a (bisection; Hav[lo] <= a).
HavIndex(a, lo, hi) ==
  IF lo = hi THEN lo
  ELSE LET mid == (lo + hi + 1) \div 2
       IN IF HavTable[mid + 1] <= a THEN HavIndex(a, mid, hi)
          ELSE HavIndex(a, lo, mid - 1)

\* c = 2 * asin(sqrt(a)) in units of 1e-5 radian, a in millionths, 0 <= a <= 10^6:
\* the angle whose Hav is a, interpolated between two entries of the table.
TwoAsinSqrt(a) ==
  LET h == HavIndex(a, 0, 360)
      frac == IF h = 360 THEN 0
              ELSE ((a - HavTable[h + 1]) * 1000) \div (HavTable[h + 2] - HavTable[h + 1])
      centi == (h * 1000 + frac) \div 100      \* the angle in 1/20 degree
  IN (centi * 8727) \div 100

EarthRadiusKm == 6371

\* A slip: cos(lat1) is taken twice.
haversine_distanceCosSlip(lat1, lon1, lat2, lon2) ==
  LET dlon == IF lon1 = NaN \/ lon2 = NaN \/ (lon1 = Inf /\ lon2 = Inf) THEN NaN
              ELSE IF lon1 = Inf \/ lon2 = Inf THEN Inf
              ELSE lon2 - lon1
      dlat == IF lat1 = NaN \/ lat2 = NaN \/ (lat1 = Inf /\ lat2 = Inf) THEN NaN
              ELSE IF lat1 = Inf \/ lat2 = Inf THEN Inf
              ELSE lat2 - lat1
  IN IF dlat = Inf \/ lat1 = Inf \/ lat2 = Inf \/ dlon = Inf
       THEN Raise("ValueError")
     ELSE IF dlat = NaN \/ dlon = NaN THEN Ok(NaN)
     ELSE LET a == HavOf(dlat)
                   + MulMillionths(MulMillionths(CosOf(lat1), CosOf(lat1)), HavOf(dlon))
          IN IF a < 0 \/ a > 1000000 THEN Raise("ValueError")
             ELSE LET c == TwoAsinSqrt(a)
                      r == EarthRadiusKm
                  IN Ok((c * r) \div 1000)

\* A slip: dlat is taken as a sum.
haversine_distanceSignSlip(lat1, lon1, lat2, lon2) ==
  LET dlon == IF lon1 = NaN \/ lon2 = NaN \/ (lon1 = Inf /\ lon2 = Inf) THEN NaN
              ELSE IF lon1 = Inf \/ lon2 = Inf THEN Inf
              ELSE lon2 - lon1
      dlat == IF lat1 = NaN \/ lat2 = NaN \/ (lat1 = Inf /\ lat2 = Inf) THEN NaN
              ELSE IF lat1 = Inf \/ lat2 = Inf THEN Inf
              ELSE lat2 + lat1
  IN IF dlat = Inf \/ lat1 = Inf \/ lat2 = Inf \/ dlon = Inf
       THEN Raise("ValueError")
     ELSE IF dlat = NaN \/ dlon = NaN THEN Ok(NaN)
     ELSE LET a == HavOf(dlat)
                   + MulMillionths(MulMillionths(CosOf(lat1), CosOf(lat2)), HavOf(dlon))
          IN IF a < 0 \/ a > 1000000 THEN Raise("ValueError")
             ELSE LET c == TwoAsinSqrt(a)
                      r == EarthRadiusKm
                  IN Ok((c * r) \div 1000)

\* haversine_distance(lat1, lon1, lat2, lon2): Ok(distance in 1/100 km), Ok(NaN), or
\* the ValueError ("math domain error") that math.sin, math.cos, math.sqrt and
\* math.asin raise on an infinite or out-of-domain argument.
haversine_distance(lat1, lon1, lat2, lon2) ==
  LET dlon == IF lon1 = NaN \/ lon2 = NaN \/ (lon1 = Inf /\ lon2 = Inf) THEN NaN
              ELSE IF lon1 = Inf \/ lon2 = Inf THEN Inf
              ELSE lon2 - lon1
      dlat == IF lat1 = NaN \/ lat2 = NaN \/ (lat1 = Inf /\ lat2 = Inf) THEN NaN
              ELSE IF lat1 = Inf \/ lat2 = Inf THEN Inf
              ELSE lat2 - lat1
  IN IF dlat = Inf \/ lat1 = Inf \/ lat2 = Inf \/ dlon = Inf
       THEN Raise("ValueError")
     ELSE IF dlat = NaN \/ dlon = NaN THEN Ok(NaN)
     ELSE LET a == HavOf(dlat)
                   + MulMillionths(MulMillionths(CosOf(lat1), CosOf(lat2)), HavOf(dlon))
          IN IF a < 0 \/ a > 1000000 THEN Raise("ValueError")
             ELSE LET c == TwoAsinSqrt(a)
                      r == EarthRadiusKm
                  IN Ok((c * r) \div 1000)

(***************************************************************************)
(* The stop file: rows of merged_bus_stop_data_complete.csv as             *)
(* csv.DictReader yields them, every field a text.                         *)
(***************************************************************************)
Row(stop, name_en, dir, route, lat, long) ==
  [stop |-> stop, name_en |-> name_en, dir |-> dir, route |-> route,
   lat |-> lat, long |-> long]

Rows ==
  { Row("A", "Stop A", "O", "1", "22", "114"),
    Row("B", "Stop B", "O", "2", "22", "114"),
    Row("C", "Stop C", "I", "1", "22.5", "114.5"),
    Row("D", "Stop D", "I", "1", "22", "114"),
    Row("E", "Stop E", "I", "3", "23", "114"),
    Row("F", "Stop F", "O", "3", "abc", "114"),
    Row("G", "Stop G", "O", "2", "nan", "114"),
    Row("H", "Stop H", "I", "2", "95", "114") }

RECURSIVE SeqsUpTo(_, _)
SeqsUpTo(S, n) ==
  IF n = 0 THEN {<<>>}
  ELSE LET shorter == SeqsUpTo(S, n - 1)
       IN shorter \cup {Append(s, x) : s \in shorter, x \in S}

Tables == SeqsUpTo(Rows, MaxRows)

(***************************************************************************)
(* The text box.  A text is a sequence of symbols: the comma, or a chunk   *)
(* of characters holding no comma.                                         *)
(***************************************************************************)
Comma == ","

Inputs ==
  { <<>>,                                  \* ""  (the box as first shown)
    <<"22">>,                              \* "22"
    <<"22", Comma>>,                       \* "22,"
    <<"22", Comma, " 114">>,               \* "22, 114"
    <<"22.5", Comma, "114.5">>,            \* "22.5,114.5"
    <<"abc", Comma, " 114">>,              \* "abc, 114"
    <<"22", Comma, "abc">>,                \* "22,abc"
    <<"22", Comma, " 114", Comma, "22">>,  \* "22, 114,22"
    <<"nan", Comma, " 114">>,              \* "nan, 114"
    <<"22", Comma, "inf">> }               \* "22,inf"

\* The index of the first comma of s, or 0.
FirstComma(s) ==
  IF \E k \in 1..Len(s) : s[k] = Comma
    THEN CHOOSE k \in 1..Len(s) : s[k] = Comma /\ \A m \in 1..(k - 1) : s[m] # Comma
    ELSE 0

RECURSIVE split(_)
\* str.split(','): the pieces between the commas; a text with no comma is one piece.
split(s) ==
  LET k == FirstComma(s)
  IN IF k = 0 THEN <<s>>
     ELSE <<SubSeq(s, 1, k - 1)>> \o split(SubSeq(s, k + 1, Len(s)))

\* float() of a piece: the piece is one chunk that float() accepts.
floatOfPiece(p) == IF Len(p) = 1 THEN float(p[1]) ELSE Raise("ValueError")

\* A slip: the first two pieces are taken and the others ignored.
ParseGpsFirstTwo(s) ==
  LET pieces == split(s)
      vals == [k \in 1..Len(pieces) |-> floatOfPiece(pieces[k])]
  IN IF Len(pieces) < 2 THEN Raise("ValueError")
     ELSE IF vals[1].err # "" \/ vals[2].err # "" THEN Raise("ValueError")
     ELSE Ok(<<vals[1].val, vals[2].val>>)

\* lat, lon = map(float, gps_input.split(',')): ValueError when a piece is not a
\* float or when there are not exactly two pieces to unpack.
ParseGps(s) ==
  LET pieces == split(s)
      vals == [k \in 1..Len(pieces) |-> floatOfPiece(pieces[k])]
  IN IF \E k \in 1..Len(pieces) : vals[k].err # "" THEN Raise("ValueError")
     ELSE IF Len(pieces) # 2 THEN Raise("ValueError")
     ELSE Ok(<<vals[1].val, vals[2].val>>)

(***************************************************************************)
(* The state of the page.                                                  *)
(***************************************************************************)
VARIABLES
  table,                 \* the rows of the stop file
  gps_input,             \* the text in the box
  button,                \* whether this run was started by the button
  pc,                    \* where the run of the script is
  lat, lon,              \* the parsed query
  called,                \* find_nearest_bus_stop was called in this run
  fileOpened,            \* the stop file was opened in this run
  i,                     \* the number of rows the scan has read
  nearest_stop, nearest_stop_name_en, nearest_stop_dir,
  nearest_distance, nearest_routes, route_stops, nearest_lat, nearest_lon,
  j,                     \* the number of routes the display loop has shown
  out,                   \* what the page shows, in order
  exc,                   \* the unhandled exception that ended the run, or ""
  logCalls,              \* whether returned calls are remembered in prevCall
  prevCall,              \* None, or the last call that returned before this one
  rejectedRuns,          \* None, or the number of runs rejected since the page was loaded
  q_index, q_route,      \* a route index and a route, for the route summary alone
  q_summary,             \* None, or the outcome of the summary of q_route in q_index
  h_args,                \* two points <<lat1, lon1, lat2, lon2>>, for the distance alone
  h_ab, h_ba,            \* None, or the distance from the first to the second, and back
  address,               \* address page: the text searched for, a sequence of characters
  lk_pc,                 \* address page: where the search is
  lk_k,                  \* address page: the number of proxies tried
  lk_log,                \* address page: the requests made, in order, each with its outcome
  lk_result,             \* address page: None, or <<result, is_mock>> as returned
  lk_out,                \* address page: what the search has shown
  tr_line, tr_station,   \* train page: the line and the station selected, or "Select..."
  tr_pc,                 \* train page: where the run of the script is
  tr_response,           \* train page: what the schedule request came to in this run
  tr_data,               \* train page: data, as get_latest_json_data returned it
  tr_out,                \* train page: what the page shows, in order
  tr_exc,                \* train page: the unhandled exception that ended the run, or ""
  pr_selected,           \* price page: the series selected
  pr_pc,                 \* price page: where the run of the script is
  pr_response,           \* price page: what the data request came to in this run
  pr_df,                 \* price page: df, as fetch_data returned it
  pr_out,                \* price page: what the page shows, in order
  pr_exc,                \* price page: the unhandled exception that ended the run, or ""
  stocks,                \* dashboard: the symbols of the file, in order
  sd_pc,                 \* dashboard: where the run of the script is
  sd_n,                  \* dashboard: the number of stocks the loop has processed
  index_metrics,         \* dashboard: None, or the metrics of the benchmark
  stock_metrics,         \* dashboard: the metrics of the stocks fetched
  failed_symbols,        \* dashboard: the stocks whose fetch returned None
  results,               \* dashboard: the rows of the results table, in order
  sys_stdout,            \* dashboard: the object sys.stdout refers to
  old_stdout,            \* dashboard: the local old_stdout of the running fetch
  f_pc,                  \* dashboard: where the running fetch_and_calculate is
  f_before,              \* dashboard: sys.stdout when the last fetch was called
  f_outcome,             \* dashboard: what the download of the running fetch came to
  sd_log,                \* dashboard: the downloads of this run, in order, each with its outcome
  current_location,      \* GPS page: session_state.current_location
  lat_input, lon_input,  \* GPS page: the values held by the two number inputs
  gp_defaults,           \* GPS page: the defaults the inputs were drawn with in the last run
  gp_ret                 \* GPS page: what get_location_from_browser returned in the last run

locals == <<nearest_stop, nearest_stop_name_en, nearest_stop_dir, nearest_distance,
            nearest_routes, route_stops, nearest_lat, nearest_lon>>

\* The memory of the previous call, kept for comparing two calls.
callLog == <<logCalls, prevCall, rejectedRuns>>

busPage == <<table, gps_input, button, pc, lat, lon, called, fileOpened, i, locals, j,
             out, exc, callLog>>

\* The state that the bus page's script does not touch.
probes == <<q_index, q_route, q_summary, h_args, h_ab, h_ba>>

addressPage == <<address, lk_pc, lk_k, lk_log, lk_result, lk_out>>

trainPage == <<tr_line, tr_station, tr_pc, tr_response, tr_data, tr_out, tr_exc>>

pricePage == <<pr_selected, pr_pc, pr_response, pr_df, pr_out, pr_exc>>

stockPage == <<stocks, sd_pc, sd_n, index_metrics, stock_metrics, failed_symbols, results,
               sys_stdout, old_stdout, f_pc, f_before, f_outcome, sd_log>>

gpsPage == <<current_location, lat_input, lon_input, gp_defaults, gp_ret>>

\* The pages of the repository other than the bus page.
laterPages == <<addressPage, trainPage, pricePage, stockPage, gpsPage>>

\* All that a page leaves alone: every other page.
besideAddress == <<busPage, probes, trainPage, pricePage, stockPage, gpsPage>>
besideTrain == <<busPage, probes, addressPage, pricePage, stockPage, gpsPage>>
besidePrice == <<busPage, probes, addressPage, trainPage, stockPage, gpsPage>>
besideStock == <<busPage, probes, addressPage, trainPage, pricePage, gpsPage>>
besideGps == <<busPage, probes, addressPage, trainPage, pricePage, stockPage>>

otherPages == <<probes, laterPages>>

vars == <<busPage, otherPages>>

EmptyDict == [k \in {} |-> <<>>]

\* A slip: the route index is kept from one call to the next (a module-level or
\* cached dict in place of the local of line 20).
StaleIndex == route_stops

\* line 20: route_stops = {}, a new dict in every call.
FreshIndex == EmptyDict

\* find_nearest_bus_stop, lines 15-22: the initial values of its locals.
InitLocals ==
  /\ nearest_stop = None
  /\ nearest_stop_name_en = None
  /\ nearest_stop_dir = None
  /\ nearest_distance = Inf
  /\ nearest_routes = <<>>
  /\ route_stops = EmptyDict
  /\ nearest_lat = None
  /\ nearest_lon = None

\* A slip: the error element of the last run is kept on the page (a placeholder
\* held in the session and never cleared).
StalePage ==
  IF \E k \in 1..Len(out) : out[k][1] = "error"
    THEN << <<"error", "Please enter valid GPS coordinates in the format \"latitude, longitude\"">> >>
    ELSE <<>>

\* Each run of the script draws the page anew: no element of the last run stays.
FreshPage == <<>>

\* The start of a run of the script: nothing parsed, called, read or shown yet.
RunStart ==
  /\ pc = "parse"
  /\ lat = 0 /\ lon = 0
  /\ called = FALSE /\ fileOpened = FALSE
  /\ i = 0 /\ j = 0
  /\ out = <<>>
  /\ exc = ""
  /\ InitLocals

\* No route summary is being taken apart from the page's own.
NoSummary ==
  /\ q_index = EmptyDict
  /\ q_route = ""
  /\ q_summary = None

\* No distance is being measured apart from the scan's own.
NoDistance ==
  /\ h_args = <<0, 0, 0, 0>>
  /\ h_ab = None
  /\ h_ba = None

\* The address page is not in use.
NoAddressPage ==
  /\ address = <<>>
  /\ lk_pc = "idle"
  /\ lk_k = 0
  /\ lk_log = <<>>
  /\ lk_result = None
  /\ lk_out = <<>>

\* The train page is not in use.
NoTrainPage ==
  /\ tr_line = "Select..."
  /\ tr_station = "Select..."
  /\ tr_pc = "done"
  /\ tr_response = "none"
  /\ tr_data = None
  /\ tr_out = <<>>
  /\ tr_exc = ""

\* The price page is not in use.
NoPricePage ==
  /\ pr_selected = "Urban [A, B & C - Urban]"
  /\ pr_pc = "idle"
  /\ pr_response = "none"
  /\ pr_df = None
  /\ pr_out = <<>>
  /\ pr_exc = ""

\* No fetch_and_calculate is running and none has run.
NoFetch ==
  /\ sys_stdout = "console"
  /\ old_stdout = None
  /\ f_pc = "none"
  /\ f_before = None
  /\ f_outcome = None
  /\ sd_log = <<>>

\* The dashboard is not in use.
NoStockPage ==
  /\ stocks = <<>>
  /\ sd_pc = "idle"
  /\ sd_n = 0
  /\ index_metrics = None
  /\ stock_metrics = <<>>
  /\ failed_symbols = <<>>
  /\ results = <<>>
  /\ NoFetch

\* The GPS page is not in use.
NoGpsPage ==
  /\ current_location = None
  /\ lat_input = 0
  /\ lon_input = 0
  /\ gp_defaults = <<0, 0>>
  /\ gp_ret = <<None, None>>

NoLaterPages ==
  /\ NoAddressPage
  /\ NoTrainPage
  /\ NoPricePage
  /\ NoStockPage
  /\ NoGpsPage

\* Calls are not remembered.
NoCallLog ==
  /\ logCalls = FALSE
  /\ prevCall = None
  /\ rejectedRuns = None

\* The page as first loaded: the box is empty and the button was not pressed.
Init ==
  /\ table \in Tables
  /\ gps_input = <<>>
  /\ button = FALSE
  /\ RunStart
  /\ NoCallLog
  /\ NoSummary
  /\ NoDistance
  /\ NoLaterPages

(***************************************************************************)
(* The steps of the scan, lines 31-44.                                     *)
(***************************************************************************)
InList(x, s) == \E k \in 1..Len(s) : s[k] = x

\* A slip: the stop is put at the front of its route's list.
RouteStopsAddFront(rs, route, stop) ==
  IF route \notin DOMAIN rs
    THEN rs @@ (route :> <<stop>>)
    ELSE [rs EXCEPT ![route] = <<stop>> \o @]

\* A slip: the route's list is replaced, not extended.
RouteStopsAddReset(rs, route, stop) ==
  IF route \notin DOMAIN rs
    THEN rs @@ (route :> <<stop>>)
    ELSE [rs EXCEPT ![route] = <<stop>>]

\* A slip: the stop of a route seen for the first time is dropped (the append is
\* put in an else branch).
RouteStopsAddLate(rs, route, stop) ==
  IF route \notin DOMAIN rs
    THEN rs @@ (route :> <<>>)
    ELSE [rs EXCEPT ![route] = Append(@, stop)]

\* lines 31-33: a route seen for the first time gets an empty list; the stop is
\* appended to its route's list.
RouteStopsAdd(rs, route, stop) ==
  IF route \notin DOMAIN rs
    THEN rs @@ (route :> <<stop>>)
    ELSE [rs EXCEPT ![route] = Append(@, stop)]

\* A slip: the comparison is turned round.
IsNearerGt(distance, best) == FLt(best, distance)

\* A slip: an equal distance replaces the nearest stop too.
IsNearerOrEqual(distance, best) == FLt(distance, best) \/ FEq(distance, best)

\* line 35
IsNearer(distance, best) == FLt(distance, best)

\* A slip: the membership test is inverted.
IsNewTieInverted(distance, best, route, routes) ==
  FEq(distance, best) /\ InList(route, routes)

\* A slip: the membership test is left out.
IsNewTieNoCheck(distance, best, route, routes) == FEq(distance, best)

\* line 43
IsNewTie(distance, best, route, routes) == FEq(distance, best) /\ ~InList(route, routes)

\* A slip: the route of a nearer row is added to the tied routes, not put in
\* their place.
NearerRoutesKept(routes, route) == <<route>> \o routes

\* line 40: nearest_routes = [route]
NearerRoutes(routes, route) == <<route>>

\* A slip: dict.get with a default in place of the subscript.
RouteSummaryDefault(rs, route) ==
  IF route \notin DOMAIN rs THEN Ok(<<None, None>>)
  ELSE IF rs[route] = <<>> THEN Raise("IndexError")
  ELSE Ok(<<rs[route][1], rs[route][Len(rs[route])]>>)

\* lines 86-87: route_stops[route][0] and route_stops[route][-1]; the subscript
\* of a dict raises KeyError on a missing key, that of a list IndexError.
RouteSummary(rs, route) ==
  IF route \notin DOMAIN rs THEN Raise("KeyError")
  ELSE IF rs[route] = <<>> THEN Raise("IndexError")
  ELSE Ok(<<rs[route][1], rs[route][Len(rs[route])]>>)

ErrorMessage == "Please enter valid GPS coordinates in the format \"latitude, longitude\""

Ended == {"done", "stopped", "crashed"}

(***************************************************************************)
(* The runs of the script.  Streamlit runs the script from the top on each *)
(* interaction: an edit of the text, or a press of the button.             *)
(***************************************************************************)
NewRun ==
  /\ pc' = "parse"
  /\ lat' = 0 /\ lon' = 0
  /\ called' = FALSE /\ fileOpened' = FALSE
  /\ i' = 0 /\ j' = 0
  /\ out' = FreshPage
  /\ exc' = ""
  /\ nearest_stop' = None
  /\ nearest_stop_name_en' = None
  /\ nearest_stop_dir' = None
  /\ nearest_distance' = Inf
  /\ nearest_routes' = <<>>
  /\ route_stops' = FreshIndex
  /\ nearest_lat' = None
  /\ nearest_lon' = None

\* line 66: the user changes the text; the script reruns with the button unpressed.
EditText(s) ==
  /\ pc \in Ended
  /\ s # gps_input
  /\ gps_input' = s
  /\ button' = FALSE
  /\ NewRun
  /\ UNCHANGED <<table, callLog, otherPages>>

\* line 80: the user presses the button, which the last run drew only if it went
\* past st.stop(); the script reruns with the same text.
PressButton ==
  /\ pc \in {"done", "crashed"}
  /\ button' = TRUE
  /\ NewRun
  /\ UNCHANGED <<table, gps_input, callLog, otherPages>>

\* One more rejected run, where rejected runs are counted (up to MaxRejected).
CountRejected(n) ==
  IF n = None THEN None
  ELSE IF n[1] < MaxRejected THEN Some(n[1] + 1) ELSE n

\* lines 72-76: parse the text, or show the error and stop the run.
ParseInput ==
  /\ pc = "parse"
  /\ LET r == ParseGps(gps_input)
     IN IF r.err # ""
          THEN /\ out' = Append(out, <<"error", ErrorMessage>>)
               /\ pc' = "stopped"
               /\ rejectedRuns' = CountRejected(rejectedRuns)
               /\ UNCHANGED <<lat, lon>>
          ELSE /\ lat' = r.val[1]
               /\ lon' = r.val[2]
               /\ pc' = "button"
               /\ UNCHANGED <<out, rejectedRuns>>
  /\ UNCHANGED <<table, gps_input, button, called, fileOpened, i, locals, j, exc,
                 logCalls, prevCall, otherPages>>

\* line 80, button not pressed: the run ends with nothing shown.
SkipFind ==
  /\ pc = "button"
  /\ ~button
  /\ pc' = "done"
  /\ UNCHANGED <<table, gps_input, button, lat, lon, called, fileOpened, i, locals,
                 j, out, exc,
                 callLog, otherPages>>

\* lines 81, 15-25: the call of find_nearest_bus_stop, up to the opened file.
CallFind ==
  /\ pc = "button"
  /\ button
  /\ called' = TRUE
  /\ nearest_stop' = None
  /\ nearest_stop_name_en' = None
  /\ nearest_stop_dir' = None
  /\ nearest_distance' = Inf
  /\ nearest_routes' = <<>>
  /\ route_stops' = FreshIndex
  /\ nearest_lat' = None
  /\ nearest_lon' = None
  /\ fileOpened' = TRUE
  /\ i' = 0
  /\ pc' = "scan"
  /\ UNCHANGED <<table, gps_input, button, lat, lon, j, out, exc,
                 callLog, otherPages>>

\* An exception nothing catches ends the run.
Crash(e) ==
  /\ pc' = "crashed"
  /\ exc' = e

\* lines 26-44: one iteration of the loop over the rows.
ScanRow ==
  /\ pc = "scan"
  /\ i < Len(table)
  /\ LET row == table[i + 1]
         stop_lat == float(row.lat)
         stop_lon == float(row.long)
         route == row.route
         stop == <<row.stop, row.name_en, row.dir>>
     IN IF stop_lat.err # "" \/ stop_lon.err # ""
          THEN /\ Crash("ValueError")
               /\ UNCHANGED <<i, locals>>
          ELSE LET d == haversine_distance(lat, lon, stop_lat.val, stop_lon.val)
               IN /\ route_stops' = RouteStopsAdd(route_stops, route, stop)
                  /\ IF d.err # ""
                       THEN /\ Crash(d.err)
                            /\ UNCHANGED <<i, nearest_stop, nearest_stop_name_en,
                                           nearest_stop_dir, nearest_distance,
                                           nearest_routes, nearest_lat, nearest_lon>>
                       ELSE /\ i' = i + 1
                            /\ UNCHANGED <<pc, exc>>
                            /\ IF IsNearer(d.val, nearest_distance)
                                 THEN /\ nearest_stop' = Some(row.stop)
                                      /\ nearest_stop_name_en' = Some(row.name_en)
                                      /\ nearest_stop_dir' = Some(row.dir)
                                      /\ nearest_distance' = d.val
                                      /\ nearest_routes' = NearerRoutes(nearest_routes, route)
                                      /\ nearest_lat' = Some(stop_lat.val)
                                      /\ nearest_lon' = Some(stop_lon.val)
                                 ELSE /\ nearest_routes' =
                                           IF IsNewTie(d.val, nearest_distance, route,
                                                       nearest_routes)
                                             THEN Append(nearest_routes, route)
                                             ELSE nearest_routes
                                      /\ UNCHANGED <<nearest_stop, nearest_stop_name_en,
                                                     nearest_stop_dir, nearest_distance,
                                                     nearest_lat, nearest_lon>>
  /\ UNCHANGED <<table, gps_input, button, lat, lon, called, fileOpened, j, out,
                 callLog, otherPages>>

\* A slip: the return statement is indented into the loop.
ReturnFindEarly ==
  /\ pc = "scan"
  /\ (i = Len(table) \/ i = 1)
  /\ pc' = "show"
  /\ UNCHANGED <<table, gps_input, button, lat, lon, called, fileOpened, i, locals,
                 j, out, exc,
                 callLog, otherPages>>

\* line 46: the file is exhausted and the function returns its locals.
ReturnFind ==
  /\ pc = "scan"
  /\ i = Len(table)
  /\ pc' = "show"
  /\ UNCHANGED <<table, gps_input, button, lat, lon, called, fileOpened, i, locals,
                 j, out, exc,
                 callLog, otherPages>>

\* The call that has just returned: its table, its query and what it returned.
ThisCall ==
  [table |-> table, lat |-> lat, lon |-> lon, distance |-> nearest_distance,
   routes |-> nearest_routes, result |-> locals]

\* lines 82-84: the nearest stop, its coordinates and the map link.  The returned
\* tuple is taken over by the script here; it is remembered when calls are.
ShowNearest ==
  /\ pc = "show"
  /\ prevCall' = IF logCalls THEN Some(ThisCall) ELSE prevCall
  /\ out' = out \o << <<"nearest", nearest_stop, nearest_stop_name_en,
                        nearest_stop_dir, nearest_distance>>,
                      <<"gps", nearest_lat, nearest_lon>>,
                      <<"link", nearest_lat, nearest_lon>> >>
  /\ j' = 0
  /\ pc' = "routes"
  /\ UNCHANGED <<table, gps_input, button, lat, lon, called, fileOpened, i, locals, exc,
                 logCalls, rejectedRuns, otherPages>>

\* lines 85-88: one iteration of the loop over the tied routes.
ShowRoute ==
  /\ pc = "routes"
  /\ j < Len(nearest_routes)
  /\ LET route == nearest_routes[j + 1]
         s == RouteSummary(route_stops, route)
     IN IF s.err # ""
          THEN /\ Crash(s.err)
               /\ UNCHANGED <<j, out>>
          ELSE /\ out' = Append(out, <<"route", route, s.val[1], s.val[2]>>)
               /\ j' = j + 1
               /\ UNCHANGED <<pc, exc>>
  /\ UNCHANGED <<table, gps_input, button, lat, lon, called, fileOpened, i, locals,
                 callLog, otherPages>>

\* The end of the script.
EndRun ==
  /\ pc = "routes"
  /\ j = Len(nearest_routes)
  /\ pc' = "done"
  /\ UNCHANGED <<table, gps_input, button, lat, lon, called, fileOpened, i, locals,
                 j, out, exc,
                 callLog, otherPages>>

Next ==
  \/ \E s \in Inputs : EditText(s)
  \/ PressButton
  \/ ParseInput
  \/ SkipFind
  \/ CallFind
  \/ ScanRow
  \/ ReturnFind
  \/ ShowNearest
  \/ ShowRoute
  \/ EndRun

Spec == Init /\ [][Next]_vars

(***************************************************************************)
(* The route summary on its own: the lookup of lines 86-87 applied to an   *)
(* arbitrary route index and an arbitrary route.                           *)
(***************************************************************************)
RouteIds == {"1", "2", "3"}

StopTuples == {<<"A", "Stop A", "O">>, <<"C", "Stop C", "I">>}

\* The lists find_nearest_bus_stop can build: never empty, since a list is made
\* only to be appended to.
StopLists == SeqsUpTo(StopTuples, MaxStops) \ {<<>>}

RouteIndexes == UNION {[D -> StopLists] : D \in SUBSET RouteIds}

InitSummary ==
  /\ table = <<>>
  /\ gps_input = <<>>
  /\ button = FALSE
  /\ RunStart
  /\ NoCallLog
  /\ q_index \in RouteIndexes
  /\ q_route \in RouteIds
  /\ q_summary = None
  /\ NoDistance
  /\ NoLaterPages

TakeSummary ==
  /\ q_summary = None
  /\ q_summary' = Some(RouteSummary(q_index, q_route))
  /\ UNCHANGED <<busPage, q_index, q_route, h_args, h_ab, h_ba, laterPages>>

NextSummary == TakeSummary

SpecSummary == InitSummary /\ [][NextSummary]_vars

(***************************************************************************)
(* haversine_distance on its own: applied to two points of a grid of valid *)
(* coordinates (in half degrees), in both directions.                      *)
(***************************************************************************)
Latitudes == {0 - 180, 0 - 44, 0, 44, 45, 180}
Longitudes == {0 - 360, 0 - 228, 0, 228, 229, 360}

InitHaversine ==
  /\ table = <<>>
  /\ gps_input = <<>>
  /\ button = FALSE
  /\ RunStart
  /\ NoCallLog
  /\ NoSummary
  /\ h_args \in Latitudes \X Longitudes \X Latitudes \X Longitudes
  /\ h_ab = None
  /\ h_ba = None
  /\ NoLaterPages

MeasureForward ==
  /\ h_ab = None
  /\ h_ab' = Some(haversine_distance(h_args[1], h_args[2], h_args[3], h_args[4]))
  /\ UNCHANGED <<busPage, q_index, q_route, q_summary, h_args, h_ba, laterPages>>

MeasureBackward ==
  /\ h_ba = None
  /\ h_ba' = Some(haversine_distance(h_args[3], h_args[4], h_args[1], h_args[2]))
  /\ UNCHANGED <<busPage, q_index, q_route, q_summary, h_args, h_ab, laterPages>>

NextHaversine == MeasureForward \/ MeasureBackward

SpecHaversine == InitHaversine /\ [][NextHaversine]_vars

(***************************************************************************)
(* Several calls compared: the page run again and again on a stop file     *)
(* whose rows may be put in another order between two runs, each returned  *)
(* call remembered until the next one returns.                             *)
(***************************************************************************)
CallRows == {r \in Rows : r.stop \in {"A", "B", "C", "D", "G"}}

CallTables == SeqsUpTo(CallRows, MaxCallRows)

\* The bijections of 1..n.
Bijections(n) == {f \in [1..n -> 1..n] : \A a, b \in 1..n : f[a] = f[b] => a = b}

\* The rows of t in every order.
Reorderings(t) == {[k \in 1..Len(t) |-> t[f[k]]] : f \in Bijections(Len(t))}

InitCalls ==
  /\ table \in CallTables
  /\ gps_input = <<>>
  /\ button = FALSE
  /\ RunStart
  /\ logCalls = TRUE
  /\ prevCall = None
  /\ rejectedRuns = None
  /\ NoSummary
  /\ NoDistance
  /\ NoLaterPages

\* Between two runs the rows of the stop file are put in another order.
ReorderFile ==
  /\ pc \in Ended
  /\ \E t \in Reorderings(table) : t # table /\ table' = t
  /\ UNCHANGED <<gps_input, button, pc, lat, lon, called, fileOpened, i, locals, j,
                 out, exc, callLog, otherPages>>

NextCalls ==
  \/ Next
  \/ ReorderFile

SpecCalls == InitCalls /\ [][NextCalls]_vars

(***************************************************************************)
(* The page used again after rejected runs: the runs rejected since the    *)
(* page was loaded are counted, and a run of the script, once started, is  *)
(* carried to its end by Streamlit.                                        *)
(***************************************************************************)
RetryRows == {r \in Rows : r.stop \in {"A", "B", "F"}}

RetryTables == SeqsUpTo(RetryRows, MaxRetryRows)

InitRetry ==
  /\ table \in RetryTables
  /\ gps_input = <<>>
  /\ button = FALSE
  /\ RunStart
  /\ logCalls = FALSE
  /\ prevCall = None
  /\ rejectedRuns = Some(0)
  /\ NoSummary
  /\ NoDistance
  /\ NoLaterPages

\* The steps the script takes by itself, with no interaction.
RunStep ==
  \/ ParseInput
  \/ SkipFind
  \/ CallFind
  \/ ScanRow
  \/ ReturnFind
  \/ ShowNearest
  \/ ShowRoute
  \/ EndRun

SpecRetry == InitRetry /\ [][Next]_vars /\ WF_vars(RunStep)

(***************************************************************************)
(* Properties of the bus page.                                             *)
(***************************************************************************)

\* find_nearest_bus_stop has returned to the script.
Returned == called /\ pc \in {"show", "routes", "done"}

RowLat(k) == float(table[k].lat).val
RowLon(k) == float(table[k].long).val
StopOf(row) == <<row.stop, row.name_en, row.dir>>

\* The distance from the query to row k.
Dist(k) == haversine_distance(lat, lon, RowLat(k), RowLon(k)).val

\* A non-empty table of stops with finite coordinates and a finite query point.
ValidCase ==
  /\ table # <<>>
  /\ IsFinite(lat) /\ IsFinite(lon)
  /\ \A k \in 1..Len(table) :
       /\ float(table[k].lat).err = "" /\ float(table[k].long).err = ""
       /\ IsFinite(RowLat(k)) /\ IsFinite(RowLon(k))

MinDist ==
  CHOOSE d \in {Dist(k) : k \in 1..Len(table)} : \A k \in 1..Len(table) : d <= Dist(k)

FirstMin ==
  CHOOSE k \in 1..Len(table) :
    Dist(k) = MinDist /\ \A m \in 1..(k - 1) : Dist(m) # MinDist

\* The nearest-stop fields are those of row k.
NearestIsRow(k) ==
  /\ nearest_stop = Some(table[k].stop)
  /\ nearest_stop_name_en = Some(table[k].name_en)
  /\ nearest_stop_dir = Some(table[k].dir)
  /\ nearest_lat = Some(RowLat(k))
  /\ nearest_lon = Some(RowLon(k))

\* C1: on a non-empty table, the distance returned by find_nearest_bus_stop is the
\* minimum of the distances from the query to the rows, and the stop returned
\* (id, name, direction, lat, lon) is a row at that minimum.
C1_NearestIsMinimum ==
  (Returned /\ ValidCase) =>
    /\ nearest_distance = MinDist
    /\ \E k \in 1..Len(table) : Dist(k) = MinDist /\ NearestIsRow(k)

\* A returned scan in which the first row was not the nearest: a later, strictly
\* nearer row replaced it.
C1_Witness ==
  /\ Returned /\ ValidCase
  /\ Len(table) >= 2
  /\ Dist(1) > MinDist
  /\ nearest_distance = MinDist

\* C2: among several rows at the minimal distance, the stop returned is the first
\* in table order; a later row at an equal distance does not replace it.
C2_FirstWinsOnTies ==
  (Returned /\ ValidCase) => NearestIsRow(FirstMin)

\* A returned scan with a later row at the minimal distance whose stop differs from
\* the first such row's.
C2_Witness ==
  /\ Returned /\ ValidCase
  /\ \E k \in 1..Len(table) :
       /\ k > FirstMin
       /\ Dist(k) = MinDist
       /\ table[k].stop # table[FirstMin].stop
  /\ nearest_stop = Some(table[FirstMin].stop)

\* C3: after the scan of a non-empty table, every route with a row at the minimal
\* distance is in nearest_routes.
C3_TiedRoutesComplete ==
  (Returned /\ ValidCase) =>
    \A k \in 1..Len(table) : Dist(k) = MinDist => InList(table[k].route, nearest_routes)

\* A returned scan with two nearest rows of identical coordinates and distinct
\* routes, a row before them and a row after them.
C3_Witness ==
  /\ Returned /\ ValidCase
  /\ \E k, m \in 1..Len(table) :
       /\ 1 < k /\ k < m
       /\ table[k].lat = table[m].lat /\ table[k].long = table[m].long
       /\ table[k].route # table[m].route
       /\ Dist(k) = MinDist
       /\ InList(table[k].route, nearest_routes)
       /\ InList(table[m].route, nearest_routes)

NoDuplicates(s) == \A a, b \in 1..Len(s) : s[a] = s[b] => a = b

\* C4: nearest_routes never holds the same route twice, during the scan and after.
C4_TiedRoutesDistinct == NoDuplicates(nearest_routes)

\* The scan has read two rows of one route, with different stops, both at the
\* distance that is the nearest so far.
C4_Witness ==
  /\ pc = "scan"
  /\ \E k, m \in 1..i :
       /\ k < m
       /\ table[k].route = table[m].route
       /\ table[k].stop # table[m].stop
       /\ Dist(k) = nearest_distance
       /\ Dist(m) = nearest_distance
  /\ IsFinite(nearest_distance)

\* C5: on a table of zero rows find_nearest_bus_stop fails: it returns no result.
C5_EmptyTableFails == ~(Returned /\ table = <<>>)

(***************************************************************************)
(* The texts of the box, described without the parser.                     *)
(***************************************************************************)
DecimalTexts == {"22", " 114", "114", "22.5", "114.5", "23", "95"}
NonFiniteTexts == {"nan", "inf"}

\* Two numbers (finite or not) with a comma between them.
TwoNumbers(s) ==
  /\ Len(s) = 3
  /\ s[2] = Comma
  /\ s[1] \in DecimalTexts \cup NonFiniteTexts
  /\ s[3] \in DecimalTexts \cup NonFiniteTexts

\* A text that is non-numeric or does not split into exactly two values.
Malformed(s) == ~TwoNumbers(s)

\* Two numbers of which one is NaN or infinite.
NonFiniteQuery(s) == TwoNumbers(s) /\ (s[1] \in NonFiniteTexts \/ s[3] \in NonFiniteTexts)

\* The run showed the error message and nothing else, and stopped.
Rejected ==
  /\ pc = "stopped"
  /\ out = << <<"error", ErrorMessage>> >>

\* C6: a run on a text that is non-numeric or not exactly two values is rejected
\* with the error message; find_nearest_bus_stop is not called and the stop file
\* is not opened in that run.
C6_MalformedRejectedBeforeScan ==
  (Malformed(gps_input) /\ pc # "parse") => (Rejected /\ ~called /\ ~fileOpened)

\* A rejected run on three comma-separated numbers.
C6_Witness ==
  /\ Len(split(gps_input)) = 3
  /\ \A k \in 1..Len(gps_input) : gps_input[k] \in DecimalTexts \cup {Comma}
  /\ Rejected

\* C7: a run on two values of which one is NaN or infinite is rejected and never
\* reaches the scan.
C7_NonFiniteRejected ==
  (NonFiniteQuery(gps_input) /\ pc # "parse") => (Rejected /\ ~called /\ ~fileOpened)

\* C8: the summary of a route that is not a key of the route index fails with an
\* error; no summary is returned.
C8_UnknownRouteFails ==
  (q_summary # None /\ q_route \notin DOMAIN q_index) => q_summary[1].err # ""

\* The summary was asked of a non-empty index that lacks the route.
C8_Witness ==
  /\ q_summary # None
  /\ q_index # EmptyDict
  /\ q_route \notin DOMAIN q_index
  /\ q_summary[1].err = "KeyError"

RowsOf(route) == {k \in 1..Len(table) : table[k].route = route}
FirstRowOf(route) == CHOOSE k \in RowsOf(route) : \A m \in RowsOf(route) : k <= m
LastRowOf(route) == CHOOSE k \in RowsOf(route) : \A m \in RowsOf(route) : m <= k

\* The start and end stops of a route, from the table.
EndsOf(route) == <<StopOf(table[FirstRowOf(route)]), StopOf(table[LastRowOf(route)])>>

\* C9: for every route of the route index, the summary's start stop is the first
\* row of the table with that route and its end stop the last; the lines the page
\* shows for the tied routes carry those stops.
C9_SummaryIsFirstAndLastRow ==
  Returned =>
    /\ \A route \in DOMAIN route_stops :
         /\ RowsOf(route) # {}
         /\ RouteSummary(route_stops, route).err = ""
         /\ RouteSummary(route_stops, route).val = EndsOf(route)
    /\ \A k \in 1..Len(out) :
         out[k][1] = "route" =>
           /\ RowsOf(out[k][2]) # {}
           /\ <<out[k][3], out[k][4]>> = EndsOf(out[k][2])

\* A finished run that showed a route of several rows whose first and last stops
\* differ, with a route of a single row in the index.
C9_Witness ==
  /\ pc = "done" /\ Returned
  /\ \E k \in 1..Len(out) :
       /\ out[k][1] = "route"
       /\ out[k][3] # out[k][4]
       /\ Cardinality(RowsOf(out[k][2])) >= 2
  /\ \E route \in DOMAIN route_stops :
       /\ Cardinality(RowsOf(route)) = 1
       /\ RouteSummary(route_stops, route).val[1] = RouteSummary(route_stops, route).val[2]

\* C10: after the scan the keys of the route index are the routes of the table,
\* and each route's list is as long as the number of rows with that route.
C10_RouteIndexComplete ==
  Returned =>
    /\ DOMAIN route_stops = {table[k].route : k \in 1..Len(table)}
    /\ \A route \in DOMAIN route_stops :
         Len(route_stops[route]) = Cardinality(RowsOf(route))

\* A returned scan of a table with two routes, one of them on several rows.
C10_Witness ==
  /\ Returned
  /\ Cardinality(DOMAIN route_stops) >= 2
  /\ \E route \in DOMAIN route_stops : Len(route_stops[route]) >= 2

RECURSIVE StopsOfRoute(_, _)
\* The stops of the rows of t that bear the route, in the order of t.
StopsOfRoute(t, route) ==
  IF t = <<>> THEN <<>>
  ELSE (IF Head(t).route = route THEN <<StopOf(Head(t))>> ELSE <<>>)
         \o StopsOfRoute(Tail(t), route)

\* C11: each route's list in the route index is the table filtered to that route,
\* in table order, no row dropped, duplicated or moved; during the scan this
\* holds of the rows read so far.
C11_RouteListIsFilteredTable ==
  (called /\ pc \in {"scan", "show", "routes", "done"}) =>
    \A route \in DOMAIN route_stops :
      route_stops[route] = StopsOfRoute(SubSeq(table, 1, i), route)

\* A returned scan in which a route has two rows with different stops and a row of
\* another route between them.
C11_Witness ==
  /\ Returned
  /\ \E k, m, n \in 1..Len(table) :
       /\ k < m /\ m < n
       /\ table[k].route = table[n].route
       /\ table[m].route # table[k].route
       /\ table[k].stop # table[n].stop
       /\ route_stops[table[k].route] = <<StopOf(table[k]), StopOf(table[n])>>

\* A line of the page that tells of the nearest stop, its place or its routes.
IsResultLine(line) == line[1] \in {"nearest", "gps", "link", "route"}
ResultShown == \E k \in 1..Len(out) : IsResultLine(out[k])

\* A text that is no number, finite or not.
NonNumeric(t) == t \notin DecimalTexts \cup NonFiniteTexts

\* Some row has a latitude or longitude that is no number.
HasNonNumericRow ==
  \E k \in 1..Len(table) : NonNumeric(table[k].lat) \/ NonNumeric(table[k].long)

\* C12: with a row of non-numeric latitude or longitude anywhere in the table, the
\* call ends in an error: find_nearest_bus_stop never returns, and nothing of the
\* rows before the bad one is shown.
C12_NonNumericRowAborts ==
  HasNonNumericRow =>
    /\ ~Returned
    /\ ~ResultShown
    /\ called => pc \in {"scan", "crashed"}

\* The scan read a good row, found a nearest stop, and ended on the ValueError of
\* the bad row after it.
C12_Witness ==
  /\ pc = "crashed" /\ exc = "ValueError"
  /\ i >= 1 /\ i < Len(table)
  /\ NonNumeric(table[i + 1].lat)
  /\ nearest_stop # None
  /\ ~ResultShown

\* A latitude outside [-90, 90] or a longitude outside [-180, 180], in half degrees,
\* or a value that is not finite.
BadLatitude(x) == ~IsFinite(x) \/ x < 0 - 180 \/ x > 180
BadLongitude(x) == ~IsFinite(x) \/ x < 0 - 360 \/ x > 360

\* Some row has numeric coordinates of which one is out of range or not finite.
HasOutOfRangeRow ==
  \E k \in 1..Len(table) :
    /\ float(table[k].lat).err = "" /\ float(table[k].long).err = ""
    /\ (BadLatitude(RowLat(k)) \/ BadLongitude(RowLon(k)))

\* C13: with a row whose numeric coordinate is out of range or not finite, the
\* call ends in an error; the row never enters the route index.
C13_OutOfRangeRowAborts ==
  HasOutOfRangeRow => ~Returned

\* C14: queried at the coordinates of one of the table's rows, the scan returns
\* the distance zero and a nearest stop at those coordinates.
C14_SelfDistanceZero ==
  (Returned /\ ValidCase /\ \E k \in 1..Len(table) : RowLat(k) = lat /\ RowLon(k) = lon) =>
    /\ nearest_distance = 0
    /\ nearest_lat = Some(lat)
    /\ nearest_lon = Some(lon)

\* A returned scan whose query is the place of a row that is not the first, the
\* first row being elsewhere.
C14_Witness ==
  /\ Returned /\ ValidCase
  /\ Len(table) >= 2
  /\ (RowLat(1) # lat \/ RowLon(1) # lon)
  /\ \E k \in 2..Len(table) : RowLat(k) = lat /\ RowLon(k) = lon
  /\ nearest_distance = 0

\* The table and the query of the scenario of the specification.
ScenarioTable ==
  << Row("A", "Stop A", "O", "1", "22", "114"),
     Row("B", "Stop B", "O", "2", "22", "114"),
     Row("C", "Stop C", "I", "1", "22.5", "114.5") >>

ScenarioQuery == <<"22", Comma, " 114">>

\* C17: on the table A, B, C queried at (22, 114) the scan returns stop A at
\* distance 0 with the tied routes "1", "2" in that order, and the summary of
\* route "1" starts at A and ends at C.
C17_Scenario ==
  (Returned /\ table = ScenarioTable /\ gps_input = ScenarioQuery) =>
    /\ nearest_stop = Some("A")
    /\ nearest_stop_name_en = Some("Stop A")
    /\ nearest_stop_dir = Some("O")
    /\ nearest_distance = 0
    /\ nearest_routes = <<"1", "2">>
    /\ RouteSummary(route_stops, "1").err = ""
    /\ RouteSummary(route_stops, "1").val = <<StopOf(ScenarioTable[1]), StopOf(ScenarioTable[3])>>

\* The run of the scenario has ended, both routes shown.
C17_Witness ==
  /\ pc = "done" /\ Returned
  /\ table = ScenarioTable /\ gps_input = ScenarioQuery
  /\ Len(out) = 5
  /\ out[4][1] = "route" /\ out[4][2] = "1"
  /\ out[5][1] = "route" /\ out[5][2] = "2"

\* C19: nothing of the result is shown before find_nearest_bus_stop has returned,
\* and it returns only when every row of the table has been processed.
C19_NoResultBeforeScanEnds ==
  /\ ResultShown => (called /\ i = Len(table) /\ pc \in {"routes", "done", "crashed"})
  /\ Returned => i = Len(table)
  /\ pc \in {"parse", "button", "scan", "show"} => out = <<>>

\* The scan is between two rows: it holds a nearest stop so far and the page is
\* still empty.
C19_Witness ==
  /\ pc = "scan"
  /\ i >= 1 /\ i < Len(table)
  /\ nearest_stop # None
  /\ out = <<>>

\* C15: the distance from a to b equals the distance from b to a.
C15_HaversineSymmetric ==
  (h_ab # None /\ h_ba # None) =>
    /\ h_ab[1].err = h_ba[1].err
    /\ h_ab[1].val = h_ba[1].val

\* Both directions were measured between two points that differ in latitude and
\* in longitude.
C15_Witness ==
  /\ h_ab # None /\ h_ba # None
  /\ h_args[1] # h_args[3] /\ h_args[2] # h_args[4]
  /\ Abs(h_args[1]) # Abs(h_args[3])
  /\ h_ab[1].err = "" /\ h_ab[1].val > 0

\* Two points opposite each other on the sphere.
Antipodal(p) == p[3] = 0 - p[1] /\ Abs(p[4] - p[2]) = 360

\* C16: the distance between valid coordinates is never negative, and between
\* antipodal points it is about 20015 km (here within 20 km, in 1/100 km).
C16_NonNegativeAndAntipodal ==
  h_ab # None =>
    /\ h_ab[1].err = ""
    /\ h_ab[1].val >= 0
    /\ Antipodal(h_args) => Abs(h_ab[1].val - 2001509) <= 2000

\* The distance was measured between antipodal points off the equator and the poles.
C16_Witness ==
  /\ h_ab # None
  /\ Antipodal(h_args)
  /\ h_args[1] = 44
  /\ h_ab[1].err = ""

(***************************************************************************)
(* Properties of calls compared with the call before.                      *)
(***************************************************************************)
Range(s) == {s[k] : k \in 1..Len(s)}

\* find_nearest_bus_stop has just returned and an earlier returned call is
\* remembered that had the same query.
SameQueryAgain ==
  /\ pc = "show"
  /\ prevCall # None
  /\ prevCall[1].lat = lat
  /\ prevCall[1].lon = lon

\* C18: a call with the table and the query of an earlier call returns what that
\* call returned; the route index of every call starts empty; no step of the
\* page changes the table.
C18_CallsAreIndependent ==
  /\ [] ((SameQueryAgain /\ prevCall[1].table = table) => prevCall[1].result = locals)
  /\ [] ((pc = "scan" /\ i = 0) => route_stops = EmptyDict)
  /\ [][Next => table' = table]_vars

\* A second call on the same non-empty table with the same query has returned.
C18_Witness ==
  /\ SameQueryAgain
  /\ prevCall[1].table = table
  /\ Len(table) >= 2
  /\ nearest_stop # None
  /\ Cardinality(DOMAIN route_stops) >= 1

\* s and t hold the same rows, each as many times, in some order.
IsPermutation(s, t) ==
  /\ Len(s) = Len(t)
  /\ \E f \in Bijections(Len(s)) : \A k \in 1..Len(s) : s[k] = t[f[k]]

\* C20: a call on a permutation of the table of an earlier call, with the same
\* query, returns the same minimal distance and the same set of tied routes.
C20_OrderIndependent ==
  (SameQueryAgain /\ IsPermutation(prevCall[1].table, table)) =>
    /\ prevCall[1].distance = nearest_distance
    /\ Range(prevCall[1].routes) = Range(nearest_routes)

\* A call on the rows in another order has returned another stop at the same
\* distance, the tied routes in another order.
C20_Witness ==
  /\ SameQueryAgain
  /\ prevCall[1].table # table
  /\ IsPermutation(prevCall[1].table, table)
  /\ prevCall[1].result[1] # nearest_stop
  /\ prevCall[1].routes # nearest_routes
  /\ Len(nearest_routes) >= 2

(***************************************************************************)
(* The tied routes and the route index, during the scan and after.         *)
(***************************************************************************)
\* C22: at every point of the scan and in the returned result every tied route is
\* a key of the route index with a non-empty list, and the display loop over the
\* tied routes never fails with a KeyError or an IndexError.
C22_TiedRoutesAreIndexed ==
  /\ \A k \in 1..Len(nearest_routes) :
       /\ nearest_routes[k] \in DOMAIN route_stops
       /\ route_stops[nearest_routes[k]] # <<>>
  /\ exc \notin {"KeyError", "IndexError"}

\* The display loop has shown the start and the end of two tied routes.
C22_Witness ==
  /\ pc = "done"
  /\ Returned
  /\ Len(nearest_routes) = 2
  /\ j = 2
  /\ \E k \in 1..Len(out) : out[k][1] = "route" /\ out[k][2] = nearest_routes[2]

\* The query and the first n rows have finite coordinates.
PrefixFinite(n) ==
  /\ IsFinite(lat) /\ IsFinite(lon)
  /\ \A k \in 1..n :
       /\ table[k].lat \in DecimalTexts
       /\ table[k].long \in DecimalTexts

\* C23: after each row the scan has processed, nearest_distance is the least
\* distance of the rows read so far, the first tied route is the route of the row
\* held as nearest stop, and every tied route has a row read so far at exactly
\* nearest_distance (so a strictly nearer row discards the routes tied before).
C23_ScanState ==
  (called /\ i >= 1 /\ PrefixFinite(i)) =>
    /\ \A k \in 1..i : nearest_distance <= Dist(k)
    /\ nearest_routes # <<>>
    /\ \E k \in 1..i :
         /\ NearestIsRow(k)
         /\ table[k].route = nearest_routes[1]
         /\ Dist(k) = nearest_distance
    /\ \A n \in 1..Len(nearest_routes) :
         \E k \in 1..i : table[k].route = nearest_routes[n] /\ Dist(k) = nearest_distance

\* In the middle of a scan, the second row was strictly nearer than the first, of
\* another route, and its route is the only tied route.
C23_Witness ==
  /\ called /\ pc = "scan"
  /\ i = 2 /\ i < Len(table)
  /\ PrefixFinite(i)
  /\ Dist(2) < Dist(1)
  /\ table[1].route # table[2].route
  /\ nearest_routes = <<table[2].route>>

(***************************************************************************)
(* The page after rejected runs.                                           *)
(***************************************************************************)
\* Two finite numbers with a comma between them.
WellFormed(s) == TwoNumbers(s) /\ s[1] \in DecimalTexts /\ s[3] \in DecimalTexts

\* The page shows lines of the result and nothing else.
OnlyResultShown ==
  /\ out # <<>>
  /\ \A k \in 1..Len(out) : IsResultLine(out[k])

\* C21: after one or more runs rejected with the error message, a run started by
\* the button on a well-formed text (and a non-empty stop file of numeric rows)
\* reaches the scan, returns from it, and ends with the result (and no error
\* message) on the page.
C21_RejectionLeavesNothing ==
  (/\ rejectedRuns \in {Some(n) : n \in 1..MaxRejected}
   /\ pc = "parse" /\ button
   /\ WellFormed(gps_input)
   /\ table # <<>> /\ ~HasNonNumericRow)
    ~> (pc = "done" /\ Returned /\ i = Len(table) /\ OnlyResultShown)

\* After MaxRejected (or more) rejected runs, a run started by the button has shown
\* the nearest stop and its routes.
C21_Witness ==
  /\ rejectedRuns = Some(MaxRejected)
  /\ pc = "done" /\ button
  /\ WellFormed(gps_input)
  /\ Returned /\ OnlyResultShown
  /\ \E k \in 1..Len(out) : out[k][1] = "route"

(***************************************************************************)
(* The address page: lookup_address_with_params and the search that calls  *)
(* it.  A text is a sequence of characters.                                *)
(***************************************************************************)
LowerOf ==
  ("A" :> "a") @@ ("B" :> "b") @@ ("C" :> "c") @@ ("D" :> "d") @@ ("E" :> "e") @@ ("F" :> "f") @@
  ("G" :> "g") @@ ("H" :> "h") @@ ("I" :> "i") @@ ("J" :> "j") @@ ("K" :> "k") @@ ("L" :> "l") @@
  ("M" :> "m") @@ ("N" :> "n") @@ ("O" :> "o") @@ ("P" :> "p") @@ ("Q" :> "q") @@ ("R" :> "r") @@
  ("S" :> "s") @@ ("T" :> "t") @@ ("U" :> "u") @@ ("V" :> "v") @@ ("W" :> "w") @@ ("X" :> "x") @@
  ("Y" :> "y") @@ ("Z" :> "z")

\* str.lower
lower(t) == [k \in 1..Len(t) |-> IF t[k] \in DOMAIN LowerOf THEN LowerOf[t[k]] ELSE t[k]]

\* t in u, for texts
Contains(u, t) == \E k \in 0..(Len(u) - Len(t)) : SubSeq(u, k + 1, k + Len(t)) = t

\* str.strip
strip(t) ==
  LET inked == {k \in 1..Len(t) : t[k] # " "}
  IN IF inked = {} THEN <<>>
     ELSE SubSeq(t, CHOOSE k \in inked : \A m \in inked : k <= m,
                    CHOOSE k \in inked : \A m \in inked : k >= m)

TimesSquare == <<"T", "i", "m", "e", "s", " ", "S", "q", "u", "a", "r", "e">>
IFC == <<"I", "F", "C">>

\* lines 10-65: the keys of MOCK_DATA in the order of the dict, and its entries.
MockKeys == <<TimesSquare, IFC>>
MOCK_DATA == (TimesSquare :> Some(<<"MOCK_DATA", "Times Square">>)) @@
             (IFC :> Some(<<"MOCK_DATA", "IFC">>))

\* The texts searched for.
Addresses ==
  {
   <<>>,
   <<" ", " ">>,
   <<"T", "i", "m", "e", "s", " ", "S", "q", "u", "a", "r", "e">>,
   <<"t", "i", "m", "e", "s", " ", "s", "q", "u", "a", "r", "e">>,
   <<"I", "F", "C">>,
   <<"i", "f", "c", " ", "m", "a", "l", "l">>,
   <<"C", "e", "n", "t", "r", "a", "l">>,
   <<"I", "F", "C", " ", "T", "i", "m", "e", "s", " ", "S", "q", "u", "a", "r", "e">>,
   <<" ", "I", "f", "c", " ">>
  }

\* What a request can come to: a JSON body (a dict with suggested addresses, a
\* dict without, or null), a status that raise_for_status rejects, no answer, or a
\* body that is not JSON.
Outcomes == {"addresses", "no_addresses", "null", "http_error", "no_answer", "not_json"}
Succeeded(o) == o \in {"addresses", "no_addresses", "null"}

\* response.json()
JsonOf(source, o) == IF o = "null" THEN None ELSE Some(<<source, o>>)

\* lines 99-102
proxies == <<"allorigins", "corsproxy">>

\* A slip: the key is looked for in the address as typed.
KeyMatchesAsTyped(key, a) == Contains(a, key)

\* line 114: key.lower() in address.lower()
KeyMatches(key, a) == Contains(lower(a), lower(key))

\* lines 113-117: the entry of the first key that matches, or (None, False).
MockLookup(a) ==
  LET hits == {k \in 1..Len(MockKeys) : KeyMatches(MockKeys[k], a)}
  IN IF hits = {} THEN <<None, FALSE>>
     ELSE <<MOCK_DATA[MockKeys[CHOOSE k \in hits : \A m \in hits : k <= m]], TRUE>>

\* A page as first loaded, every other page left alone.
InitPages ==
  /\ table = <<>>
  /\ gps_input = <<>>
  /\ button = FALSE
  /\ RunStart
  /\ NoCallLog
  /\ NoSummary
  /\ NoDistance
  /\ NoLaterPages

\* lines 159-164: the search button is pressed on a text; a blank text gets a
\* warning, any other the lookup.
Search(a) ==
  /\ lk_pc \in {"idle", "shown"}
  /\ address' = a
  /\ lk_k' = 0
  /\ lk_log' = <<>>
  /\ lk_result' = None
  /\ IF strip(a) = <<>>
       THEN /\ lk_out' = <<"Please enter an address">>
            /\ lk_pc' = "shown"
       ELSE /\ lk_out' = <<>>
            /\ lk_pc' = "direct"
  /\ UNCHANGED <<besideAddress>>

\* lines 93-97: the request to the API itself.
RequestDirect(o) ==
  /\ lk_pc = "direct"
  /\ lk_log' = Append(lk_log, <<"direct", o>>)
  /\ IF Succeeded(o)
       THEN /\ lk_result' = Some(<<JsonOf("direct", o), FALSE>>)
            /\ lk_pc' = "returned"
       ELSE /\ lk_pc' = "proxy"
            /\ UNCHANGED lk_result
  /\ UNCHANGED <<besideAddress, address, lk_k, lk_out>>

\* lines 104-110: the request through the next proxy.
RequestProxy(o) ==
  /\ lk_pc = "proxy"
  /\ lk_k < Len(proxies)
  /\ lk_log' = Append(lk_log, <<proxies[lk_k + 1], o>>)
  /\ IF Succeeded(o)
       THEN /\ lk_result' = Some(<<JsonOf(proxies[lk_k + 1], o), FALSE>>)
            /\ lk_pc' = "returned"
            /\ UNCHANGED lk_k
       ELSE /\ lk_k' = lk_k + 1
            /\ UNCHANGED <<lk_result, lk_pc>>
  /\ UNCHANGED <<besideAddress, address, lk_out>>

\* lines 112-117: every request failed.
MockFallback ==
  /\ lk_pc = "proxy"
  /\ lk_k = Len(proxies)
  /\ lk_result' = Some(MockLookup(address))
  /\ lk_pc' = "returned"
  /\ UNCHANGED <<besideAddress, address, lk_k, lk_log, lk_out>>

\* lines 166-251: the warning of demo data, then the addresses found or the error.
ShowSearch ==
  /\ lk_pc = "returned"
  /\ LET result == lk_result[1][1]
         is_mock == lk_result[1][2]
         found == result # None /\ result[1][2] \in {"addresses", "Times Square", "IFC"}
     IN lk_out' = (IF is_mock THEN <<"Using demo data">> ELSE <<>>) \o
                  (IF found THEN <<"Found">> ELSE <<"No results found">>)
  /\ lk_pc' = "shown"
  /\ UNCHANGED <<besideAddress, address, lk_k, lk_log, lk_result>>

NextAddress ==
  \/ \E a \in Addresses : Search(a)
  \/ \E o \in Outcomes : RequestDirect(o)
  \/ \E o \in Outcomes : RequestProxy(o)
  \/ MockFallback
  \/ ShowSearch

SpecAddress == InitPages /\ [][NextAddress]_vars

\* The lookup has returned.
LookupReturned == lk_pc \in {"returned", "shown"} /\ lk_result # None

Sources == <<"direct", "allorigins", "corsproxy">>

\* The key is in the address when letter case is ignored.
KeyInAddress(key, a) == Contains(lower(a), lower(key))

\* C24: the sources are asked in the order direct, allorigins, corsproxy, each
\* only after the ones before it failed; the first JSON answer is returned with
\* is_mock = False and no later source is asked; is_mock = True is returned only
\* after all three failed, with the MOCK_DATA entry of a key found in the address
\* whatever the letter case; when all three failed and no key is in the address
\* the lookup returns (None, False).
C24_LookupOrder ==
  /\ Len(lk_log) <= Len(Sources)
  /\ \A k \in 1..Len(lk_log) :
       /\ lk_log[k][1] = Sources[k]
       /\ k < Len(lk_log) => ~Succeeded(lk_log[k][2])
  /\ LookupReturned =>
       LET result == lk_result[1][1]
           is_mock == lk_result[1][2]
           last == lk_log[Len(lk_log)]
           allFailed == Len(lk_log) = Len(Sources) /\ ~Succeeded(last[2])
       IN /\ lk_log # <<>>
          /\ Succeeded(last[2]) => (result = JsonOf(last[1], last[2]) /\ ~is_mock)
          /\ is_mock =>
               /\ allFailed
               /\ \E k \in 1..Len(MockKeys) :
                    KeyInAddress(MockKeys[k], address) /\ result = MOCK_DATA[MockKeys[k]]
          /\ (allFailed /\ \A k \in 1..Len(MockKeys) : ~KeyInAddress(MockKeys[k], address))
               => (result = None /\ ~is_mock)
          /\ (allFailed /\ \E k \in 1..Len(MockKeys) : KeyInAddress(MockKeys[k], address))
               => is_mock
          /\ ~Succeeded(last[2]) => allFailed

\* All three requests failed on a text that holds the key IFC in other letter case,
\* and the demo data for IFC came back with the warning shown.
C24_Witness ==
  /\ lk_pc = "shown"
  /\ Len(lk_log) = 3
  /\ ~Contains(address, IFC)
  /\ lk_result = Some(<<MOCK_DATA[IFC], TRUE>>)
  /\ lk_out[1] = "Using demo data"

(***************************************************************************)
(* The Next Train page.                                                    *)
(***************************************************************************)
\* lines 16-19, 35: the lines of the data dictionary and the stations of each.
TrainLines == {"East Rail Line", "Tuen Ma Line"}
LineStations(l) ==
  IF l = "East Rail Line" THEN {"Admiralty - ADM", "Hung Hom - HUH"}
  ELSE IF l = "Tuen Ma Line" THEN {"Hung Hom - HUH", "Tuen Mun - TUM"}
  ELSE {}

\* What the schedule request can come to: no answer, a body that is not JSON, a
\* status other than 200, or with status 200 a dict: the station's schedule with
\* both, one or none of UP and DOWN, a schedule without the station, an API error
\* with or without a message, or an empty dict.
TrainResponses ==
  {"no_answer", "not_json", "status_not_200", "schedule_both", "schedule_up",
   "schedule_down", "schedule_bare", "other_station", "api_error", "error_bare", "empty"}

Schedules == {"schedule_both", "schedule_up", "schedule_down", "schedule_bare"}

\* A run of the script starts from the top.
TrainRun ==
  /\ tr_pc' = "select"
  /\ tr_response' = "none"
  /\ tr_data' = None
  /\ tr_out' = <<>>
  /\ tr_exc' = ""

\* line 24: a line is chosen; the station box is drawn anew.
SelectLine(l) ==
  /\ tr_pc \in {"done", "crashed"}
  /\ l # tr_line
  /\ tr_line' = l
  /\ tr_station' = "Select..."
  /\ TrainRun
  /\ UNCHANGED besideTrain

\* line 38: a station of the chosen line is chosen.
SelectStation(st) ==
  /\ tr_pc \in {"done", "crashed"}
  /\ st \in LineStations(tr_line) \cup {"Select..."}
  /\ st # tr_station
  /\ tr_station' = st
  /\ TrainRun
  /\ UNCHANGED <<besideTrain, tr_line>>

\* lines 27, 41: with a line and a station chosen the schedule is asked for.
CheckSelections ==
  /\ tr_pc = "select"
  /\ tr_pc' = IF tr_line # "Select..." /\ tr_station # "Select..." THEN "request" ELSE "footer"
  /\ UNCHANGED <<besideTrain, tr_line, tr_station, tr_response, tr_data, tr_out, tr_exc>>

\* line 10: return None
NoData == None

\* lines 5-10, 47: get_latest_json_data
RequestSchedule(r) ==
  /\ tr_pc = "request"
  /\ tr_response' = r
  /\ IF r = "no_answer"
       THEN tr_pc' = "crashed" /\ tr_exc' = "ConnectionError" /\ UNCHANGED tr_data
     ELSE IF r = "not_json"
       THEN tr_pc' = "crashed" /\ tr_exc' = "JSONDecodeError" /\ UNCHANGED tr_data
     ELSE /\ tr_data' = IF r = "status_not_200" THEN NoData ELSE Some(r)
          /\ tr_pc' = "branch"
          /\ UNCHANGED tr_exc
  /\ UNCHANGED <<besideTrain, tr_line, tr_station, tr_out>>

\* bool(data): None and the empty dict are false.
Truthy(data) == data # None /\ data # Some("empty")

\* lines 50-66: the schedule, the API's error message, or 'Invalid data received
\* from API'.  The test of line 63, 'error' in data, raises TypeError on None.
ShowSchedule ==
  /\ tr_pc = "branch"
  /\ IF Truthy(tr_data) /\ tr_data[1] \in Schedules
       THEN /\ tr_out' = tr_out \o
                 (IF tr_data[1] \in {"schedule_both", "schedule_up"} THEN <<"UP Data">> ELSE <<>>) \o
                 (IF tr_data[1] \in {"schedule_both", "schedule_down"} THEN <<"DOWN Data">> ELSE <<>>)
            /\ tr_pc' = "footer"
            /\ UNCHANGED tr_exc
     ELSE IF tr_data = None
       THEN /\ tr_pc' = "crashed"
            /\ tr_exc' = "TypeError"
            /\ UNCHANGED tr_out
     ELSE IF tr_data[1] = "api_error"
       THEN /\ tr_out' = Append(tr_out, "Error from API")
            /\ tr_pc' = "footer"
            /\ UNCHANGED tr_exc
     ELSE /\ tr_out' = Append(tr_out, "Invalid data received from API")
          /\ tr_pc' = "footer"
          /\ UNCHANGED tr_exc
  /\ UNCHANGED <<besideTrain, tr_line, tr_station, tr_response, tr_data>>

\* line 69
ShowSource ==
  /\ tr_pc = "footer"
  /\ tr_out' = Append(tr_out, "Source data: MTR Corporation Limited")
  /\ tr_pc' = "done"
  /\ UNCHANGED <<besideTrain, tr_line, tr_station, tr_response, tr_data, tr_exc>>

NextTrain ==
  \/ \E l \in TrainLines \cup {"Select..."} : SelectLine(l)
  \/ \E st \in UNION {LineStations(l) : l \in TrainLines} \cup {"Select..."} : SelectStation(st)
  \/ CheckSelections
  \/ \E r \in TrainResponses : RequestSchedule(r)
  \/ ShowSchedule
  \/ ShowSource

SpecTrain == InitPages /\ [][NextTrain]_vars

\* C25: when the schedule request returns a status other than 200, the run reports
\* 'Invalid data received from API', goes on to the footer, and does not end in an
\* unhandled exception.
C25_Non200IsReported ==
  (tr_response = "status_not_200" /\ tr_pc \in {"footer", "done", "crashed"}) =>
    /\ tr_exc = ""
    /\ \E k \in 1..Len(tr_out) : tr_out[k] = "Invalid data received from API"
    /\ tr_pc = "done" => tr_out[Len(tr_out)] = "Source data: MTR Corporation Limited"

(***************************************************************************)
(* The property-price page.                                                *)
(***************************************************************************)
\* line 53
columns_to_plot ==
  <<"Urban [A, B & C - Urban]", "N.T. [A, B & C - N.T.]", "Urban [Overall - Urban]",
    "N.T. [Overall - N.T.]", "All [Overall - All]">>

\* What the data request can come to: no answer, a status other than 200, or with
\* status 200 a body that is not JSON, records without the month, records without
\* the series to plot, or records of some number of periods.
Non200 == {"status_404", "status_500", "status_503"}
PriceTables == {<<"table", n>> : n \in 0..MaxPeriods}
PriceResponses ==
  {<<r>> : r \in Non200 \cup {"no_answer", "not_json", "no_month", "no_series"}} \cup PriceTables

\* line 46 calls st.error with two positional arguments; whether the installed
\* Streamlit shows the message or raises TypeError is not settled by this code.
ErrorCalls == {"shown", "TypeError"}

\* A run of the script starts from the top.
PriceRun ==
  /\ pr_pc' = "fetch"
  /\ pr_response' = "none"
  /\ pr_df' = None
  /\ pr_out' = <<>>
  /\ pr_exc' = ""

\* The page is loaded, or loaded again.
LoadPrice ==
  /\ pr_pc \in {"idle", "done", "crashed"}
  /\ PriceRun
  /\ UNCHANGED <<besidePrice, pr_selected>>

\* line 56: another series is chosen in the box, which the last run drew if it
\* came as far as line 56.
SelectSeries(c) ==
  /\ pr_pc \in {"done", "crashed"}
  /\ \E k \in 1..Len(pr_out) : pr_out[k] = "Select a series to display"
  /\ c # pr_selected
  /\ pr_selected' = c
  /\ PriceRun
  /\ UNCHANGED besidePrice

\* lines 15-47, 50: df = fetch_data()
FetchData(r, e) ==
  /\ pr_pc = "fetch"
  /\ pr_response' = r[1]
  /\ IF r[1] \in {"no_answer", "not_json", "no_month"}
       THEN /\ pr_pc' = "crashed"
            /\ pr_exc' = (IF r[1] = "no_answer" THEN "ConnectionError"
                          ELSE IF r[1] = "not_json" THEN "JSONDecodeError" ELSE "KeyError")
            /\ UNCHANGED <<pr_df, pr_out>>
     ELSE IF r[1] \in Non200
       THEN IF e = "TypeError"
              THEN /\ pr_pc' = "crashed"
                   /\ pr_exc' = "TypeError"
                   /\ UNCHANGED <<pr_df, pr_out>>
              ELSE /\ pr_out' = Append(pr_out, "Error fetching data:")
                   /\ pr_df' = None
                   /\ pr_pc' = "plot"
                   /\ UNCHANGED pr_exc
     ELSE /\ pr_df' = Some(r)
          /\ pr_pc' = "plot"
          /\ UNCHANGED <<pr_out, pr_exc>>
  /\ UNCHANGED <<besidePrice, pr_selected>>

\* lines 56-66: the box of the series, then the plot of df['Period'] against
\* df[selected_column]; the subscript of None raises TypeError, that of a missing
\* column KeyError.
PlotSeries ==
  /\ pr_pc = "plot"
  /\ IF pr_df = None
       THEN /\ pr_out' = pr_out \o <<"Select a series to display", "Time Series Plot">>
            /\ pr_pc' = "crashed"
            /\ pr_exc' = "TypeError"
     ELSE IF pr_df[1][1] = "no_series"
       THEN /\ pr_out' = pr_out \o <<"Select a series to display", "Time Series Plot">>
            /\ pr_pc' = "crashed"
            /\ pr_exc' = "KeyError"
     ELSE /\ pr_out' = pr_out \o <<"Select a series to display", "Time Series Plot", "chart">>
          /\ pr_pc' = "change"
          /\ UNCHANGED pr_exc
  /\ UNCHANGED <<besidePrice, pr_selected, pr_response, pr_df>>

\* lines 69-82: the year-on-year change and its plot.
PlotChange ==
  /\ pr_pc = "change"
  /\ pr_out' = pr_out \o <<"Year on Year Change", "chart">>
  /\ pr_pc' = "done"
  /\ UNCHANGED <<besidePrice, pr_selected, pr_response, pr_df, pr_exc>>

NextPrice ==
  \/ LoadPrice
  \/ \E k \in 1..Len(columns_to_plot) : SelectSeries(columns_to_plot[k])
  \/ \E r \in PriceResponses, e \in ErrorCalls : FetchData(r, e)
  \/ PlotSeries
  \/ PlotChange

SpecPrice == InitPages /\ [][NextPrice]_vars

\* C30: when the data request returns a status other than 200, fetch_data reports
\* the error and returns None, and the run neither plots the missing data nor ends
\* in an unhandled exception.
C30_FailedFetchIsHandled ==
  (pr_response \in Non200 /\ pr_pc # "fetch") =>
    /\ pr_exc = ""
    /\ pr_pc # "crashed"
    /\ \E k \in 1..Len(pr_out) : pr_out[k] = "Error fetching data:"

(***************************************************************************)
(* The GPS page.  Each interaction runs the script, and with it             *)
(* get_location_from_browser, once.                                        *)
(***************************************************************************)
\* The numbers that can be entered.
GpsValues == {0 - 2, 0 - 1, 0, 1, 2}

\* lines 81-86: the defaults of the two inputs.
Defaults == IF current_location = None THEN <<0, 0>> ELSE current_location[1]

\* lines 89-103: what a number input returns: the value it holds, or, when it is
\* drawn with another default than in the last run, possibly that default (a
\* widget whose arguments changed may be made anew).
InputValue(held, default, lastDefault) ==
  {held} \cup (IF default # lastDefault THEN {default} ELSE {})

\* A slip: coordinates are taken as entered when either one is non-zero.
HasCoordinatesEither(latitude, longitude) == latitude # 0 \/ longitude # 0

\* line 106
HasCoordinates(latitude, longitude) == latitude # 0 /\ longitude # 0

\* lines 4-112: one run of get_location_from_browser, the inputs holding la and lo.
get_location_from_browser(la, lo) ==
  /\ gp_defaults' = Defaults
  /\ \E latitude \in InputValue(la, Defaults[1], gp_defaults[1]),
        longitude \in InputValue(lo, Defaults[2], gp_defaults[2]) :
       /\ lat_input' = latitude
       /\ lon_input' = longitude
       /\ IF HasCoordinates(latitude, longitude)
            THEN /\ current_location' = Some(<<latitude, longitude>>)
                 /\ gp_ret' = <<Some(latitude), Some(longitude)>>
            ELSE /\ gp_ret' = <<None, None>>
                 /\ UNCHANGED current_location
  /\ UNCHANGED besideGps

\* line 89: a latitude is entered.
EnterLatitude(v) ==
  /\ v # lat_input
  /\ get_location_from_browser(v, lon_input)

\* line 97: a longitude is entered.
EnterLongitude(v) ==
  /\ v # lon_input
  /\ get_location_from_browser(lat_input, v)

\* line 14: the button is pressed.
UseCurrentLocation == get_location_from_browser(lat_input, lon_input)

NextGps ==
  \/ \E v \in GpsValues : EnterLatitude(v)
  \/ \E v \in GpsValues : EnterLongitude(v)
  \/ UseCurrentLocation

SpecGps == InitPages /\ [][NextGps]_vars

\* C29: current_location is None or a pair of two non-zero numbers; a run returns
\* the pair the inputs hold, and stores it, exactly when both are non-zero, and
\* otherwise returns (None, None) and leaves current_location as it was; once set,
\* current_location is never None again.
C29_LocationOnceSetStays ==
  /\ [](current_location = None
         \/ (current_location[1][1] # 0 /\ current_location[1][2] # 0))
  /\ [][/\ (lat_input' # 0 /\ lon_input' # 0) =>
             /\ gp_ret' = <<Some(lat_input'), Some(lon_input')>>
             /\ current_location' = Some(<<lat_input', lon_input'>>)
        /\ (lat_input' = 0 \/ lon_input' = 0) =>
             /\ gp_ret' = <<None, None>>
             /\ current_location' = current_location
        /\ current_location # None => current_location' # None]_gpsPage

\* With a location stored, a run on a zero latitude returned (None, None) and the
\* stored location is still there.
C29_Witness ==
  /\ current_location # None
  /\ lat_input = 0 /\ lon_input # 0
  /\ gp_ret = <<None, None>>

(***************************************************************************)
(* The stock dashboard driven by a CSV file.                               *)
(***************************************************************************)
\* line 23: the benchmark symbol.
index == "^HSI"

\* The symbols a file can hold: the benchmark's own may be among them.
StockSymbols == {"0005.HK", "0700.HK", "^HSI"}

\* lines 26-27: the lists of symbols a file can give, repeats included.
StockLists == SeqsUpTo(StockSymbols, MaxStocks)

\* The rounded CAGR of a download (line 149), in hundredths of a per cent.
Cagrs == {0 - 350, 1225}

\* What yf.download can come to (line 105): prices from which the metrics are
\* computed, an empty frame (line 110), prices of a single day (line 125), or an
\* exception.
Downloads == {<<"data", c>> : c \in Cagrs} \cup {<<"empty">>, <<"one_day">>, <<"raised">>}

\* lines 110-160: what fetch_and_calculate returns after the download: the metrics
\* (of which the symbol and the CAGR are kept here), or None.
Metrics(symbol, o) ==
  IF o[1] = "data" THEN Some([Symbol |-> symbol, CAGR |-> o[2]]) ELSE None

\* The StringIO made by the n-th call of a run.
StringIO(n) == <<"StringIO", n>>

\* A slip: sys.stdout is restored after the download, not in a finally clause.
RestoredUnlessRaised(o, old, current) == IF o[1] = "raised" THEN current ELSE old

\* lines 102-108: try ... finally: sys.stdout = old_stdout
Restored(o, old, current) == old

\* A slip: a failed symbol is noted once only.
FailedAddOnce(failed, stock) == IF InList(stock, failed) THEN failed ELSE Append(failed, stock)

\* line 183
FailedAdd(failed, stock) == Append(failed, stock)

\* A slip: ascending=False is left out.
SortedAscending(rows) ==
  {t \in Reorderings(rows) : \A k \in 1..(Len(t) - 1) : t[k].CAGR <= t[k + 1].CAGR}

\* sort_values(by='CAGR', ascending=False): the rows in an order of non-increasing
\* CAGR; rows of equal CAGR in any order (the default sort is not stable).
SortedByCagr(rows) ==
  {t \in Reorderings(rows) : \A k \in 1..(Len(t) - 1) : t[k].CAGR >= t[k + 1].CAGR}

IsIndexRow(row) == row.Symbol = index
IsOtherRow(row) == row.Symbol # index

\* lines 194-197: the tables that can result.
ResultsTables(im, sm) ==
  LET all == <<im>> \o sm
  IN {SelectSeq(all, IsIndexRow) \o t : t \in SortedByCagr(SelectSeq(all, IsOtherRow))}

InitStock ==
  /\ table = <<>>
  /\ gps_input = <<>>
  /\ button = FALSE
  /\ RunStart
  /\ NoCallLog
  /\ NoSummary
  /\ NoDistance
  /\ NoAddressPage
  /\ NoTrainPage
  /\ NoPricePage
  /\ NoGpsPage
  /\ stocks \in StockLists
  /\ sd_pc = "idle"
  /\ sd_n = 0
  /\ index_metrics = None
  /\ stock_metrics = <<>>
  /\ failed_symbols = <<>>
  /\ results = <<>>
  /\ NoFetch

\* lines 91-100: fetch_and_calculate is called and puts a StringIO in the place of
\* sys.stdout.
EnterFetch ==
  /\ f_before' = Some(sys_stdout)
  /\ old_stdout' = Some(sys_stdout)
  /\ sys_stdout' = StringIO(Len(sd_log) + 1)
  /\ f_outcome' = None
  /\ f_pc' = "captured"

\* fetch_and_calculate has returned: its locals are gone.
LeaveFetch ==
  /\ old_stdout' = None
  /\ f_outcome' = None
  /\ f_pc' = "none"

\* lines 25-27, 163-169: a run of the script with a file chosen, up to the call
\* for the benchmark.
RunDashboard ==
  /\ sd_pc \in {"idle", "done", "failed"}
  /\ sd_pc' = "benchmark"
  /\ sd_n' = 0
  /\ index_metrics' = None
  /\ stock_metrics' = <<>>
  /\ failed_symbols' = <<>>
  /\ results' = <<>>
  /\ sd_log' = <<>>
  /\ EnterFetch
  /\ UNCHANGED <<besideStock, stocks>>

\* The symbol the running call was made for.
Fetching == IF sd_pc = "benchmark" THEN index ELSE stocks[sd_n + 1]

\* lines 102-108: the download and the finally clause.
Download(o) ==
  /\ f_pc = "captured"
  /\ f_outcome' = Some(o)
  /\ sd_log' = Append(sd_log, <<Fetching, o>>)
  /\ sys_stdout' = Restored(o, old_stdout[1], sys_stdout)
  /\ f_pc' = "restored"
  /\ UNCHANGED <<besideStock, stocks, sd_pc, sd_n, index_metrics, stock_metrics,
                 failed_symbols, results, old_stdout, f_before>>

\* lines 110-160, 169-173, 246-247: the call for the benchmark returns.
ReturnBenchmark ==
  /\ sd_pc = "benchmark"
  /\ f_pc = "restored"
  /\ index_metrics' = Metrics(index, f_outcome[1])
  /\ sd_pc' = IF index_metrics' # None THEN "loop" ELSE "failed"
  /\ LeaveFetch
  /\ UNCHANGED <<besideStock, stocks, sd_n, stock_metrics, failed_symbols, results,
                 sys_stdout, f_before, sd_log>>

\* lines 175-179: the loop calls fetch_and_calculate for the next stock.
FetchStock ==
  /\ sd_pc = "loop"
  /\ f_pc = "none"
  /\ sd_n < Len(stocks)
  /\ EnterFetch
  /\ UNCHANGED <<besideStock, stocks, sd_pc, sd_n, index_metrics, stock_metrics,
                 failed_symbols, results, sd_log>>

\* lines 110-160, 180-183: the call for a stock returns.
ReturnStock ==
  /\ sd_pc = "loop"
  /\ f_pc = "restored"
  /\ LET metric == Metrics(stocks[sd_n + 1], f_outcome[1])
     IN IF metric # None
          THEN /\ stock_metrics' = Append(stock_metrics, metric[1])
               /\ UNCHANGED failed_symbols
          ELSE /\ failed_symbols' = FailedAdd(failed_symbols, stocks[sd_n + 1])
               /\ UNCHANGED stock_metrics
  /\ sd_n' = sd_n + 1
  /\ LeaveFetch
  /\ UNCHANGED <<besideStock, stocks, sd_pc, index_metrics, results, sys_stdout,
                 f_before, sd_log>>

\* lines 186-201: after the loop the results table is made and shown.
BuildResults ==
  /\ sd_pc = "loop"
  /\ f_pc = "none"
  /\ sd_n = Len(stocks)
  /\ results' \in ResultsTables(index_metrics[1], stock_metrics)
  /\ sd_pc' = "done"
  /\ UNCHANGED <<besideStock, stocks, sd_n, index_metrics, stock_metrics, failed_symbols,
                 sys_stdout, old_stdout, f_pc, f_before, f_outcome, sd_log>>

NextStock ==
  \/ RunDashboard
  \/ \E o \in Downloads : Download(o)
  \/ ReturnBenchmark
  \/ FetchStock
  \/ ReturnStock
  \/ BuildResults

SpecStock == InitStock /\ [][NextStock]_vars

(***************************************************************************)
(* Properties of the dashboard.                                            *)
(***************************************************************************)
GotValue(e) == e[2][1] = "data"
GotNone(e) == e[2][1] # "data"

\* The rows of the downloads that gave metrics, in the order of the downloads.
RowsFetched == [k \in 1..Len(SelectSeq(sd_log, GotValue)) |->
                  [Symbol |-> SelectSeq(sd_log, GotValue)[k][1],
                   CAGR |-> SelectSeq(sd_log, GotValue)[k][2][2]]]

StockLog == SubSeq(sd_log, 2, Len(sd_log))

SymbolsOf(log) == [k \in 1..Len(log) |-> log[k][1]]

\* C27: no stock is fetched unless the benchmark was fetched first and gave
\* metrics; the stocks are fetched once each in the order of the list; between two
\* fetches and after the loop each stock processed is in stock_metrics if its fetch
\* returned metrics and in failed_symbols if not, so that after the loop the two
\* lists together are as long as the list of stocks.
C27_StocksAfterBenchmark ==
  /\ sd_log # <<>> => sd_log[1][1] = index
  /\ Len(sd_log) > 1 => (GotValue(sd_log[1]) /\ index_metrics # None)
  /\ sd_pc = "failed" => Len(sd_log) = 1
  /\ Len(StockLog) <= Len(stocks)
  /\ \A k \in 1..Len(StockLog) : StockLog[k][1] = stocks[k]
  /\ (sd_pc \in {"loop", "done"} /\ f_pc = "none") =>
       /\ Len(StockLog) = sd_n
       /\ [k \in 1..Len(stock_metrics) |-> stock_metrics[k].Symbol]
            = SymbolsOf(SelectSeq(StockLog, GotValue))
       /\ failed_symbols = SymbolsOf(SelectSeq(StockLog, GotNone))
       /\ Len(stock_metrics) + Len(failed_symbols) = sd_n
  /\ sd_pc = "done" =>
       /\ sd_n = Len(stocks)
       /\ Len(stock_metrics) + Len(failed_symbols) = Len(stocks)

\* After the loop over three stocks, the same symbol has failed twice and another
\* stock has given metrics.
C27_Witness ==
  /\ sd_pc = "done"
  /\ Len(stocks) = 3
  /\ Len(stock_metrics) = 1
  /\ Len(failed_symbols) = 2
  /\ failed_symbols[1] = failed_symbols[2]

\* C28: whenever a call of fetch_and_calculate is past its download or has
\* returned, sys.stdout is the object it was when the call was made, whatever the
\* download came to.
C28_StdoutRestored ==
  (f_before # None /\ f_pc \in {"restored", "none"}) => sys_stdout = f_before[1]

\* A call whose download raised has returned, after a call whose download gave
\* data, and sys.stdout is the console again.
C28_Witness ==
  /\ f_pc = "none"
  /\ Len(sd_log) = 2
  /\ GotValue(sd_log[1])
  /\ sd_log[2][2] = <<"raised">>
  /\ f_before = Some("console")
  /\ sys_stdout = "console"
====
